---- MODULE Spec2Model ----
(***************************************************************************)
(* Context-aware writing assistant: the suggestion pipeline.               *)
(*                                                                         *)
(*   SpecRetry  the retrying request executor of openai.service.ts         *)
(*              (makeRequestWithRetry, createApiError, getBackoffDelay)    *)
(*   Spec       the hooks useSuggestions / useOpenAI driven by edits,      *)
(*              timers and the settling of requests                        *)
(*                                                                         *)
(* Times are in milliseconds; clocks advance in steps of TimeUnit.         *)
(***************************************************************************)
EXTENDS Integers, Sequences, FiniteSets, TLC

VARIABLES
    \* ---- makeRequestWithRetry (one call) ----
    exPc,          \* "idle" | "await" | "sleep" | "returned" | "thrown"
    exMaxRetries,  \* options.maxRetries (default CONFIG.maxRetries)
    exTimeout,     \* options.timeout (default CONFIG.timeout)
    exAttempt,     \* loop variable attempt
    exLastError,   \* lastError
    exResult,      \* value returned to the caller
    exElapsed,     \* ms since the current await / sleep began
    exCalls,       \* number of requestFn() invocations so far
    exSleeps,      \* arguments of the sleep(ms) calls so far
    exErrors,      \* createApiError results, one per failed attempt
    exThrown,      \* what each failed attempt threw (the failure itself)
    exResolved     \* what requestFn resolved with, and at which attempt

exVars == <<exPc, exMaxRetries, exTimeout, exAttempt, exLastError, exResult,
            exElapsed, exCalls, exSleeps, exErrors, exThrown, exResolved>>

VARIABLES
    \* ---- configuration and environment of the hooks ----
    cfg,              \* useSuggestions options merged with DEFAULT_OPTIONS
    sortImpl,         \* the order the engine's Array.prototype.sort leaves a list in
                      \* when the comparator is not consistent (implementation-defined)
    apiKey,           \* import.meta.env.VITE_OPENAI_API_KEY is set
    now,              \* Date.now()
    mounted,          \* the component using the hooks is mounted
    timerTable,       \* pending setTimeout timers of useSuggestions.debouncedFetch
    nextTimerId,
    \* ---- WritingContext ----
    text,             \* text
    currentMode,      \* currentMode
    \* ---- useSuggestions ----
    suggestions,      \* suggestions state
    dismissedIds,     \* dismissedIds state
    lastTextRef,      \* lastTextRef.current
    debounceTimerRef, \* debounceTimerRef.current (0 = null)
    \* ---- useOpenAI ----
    api,              \* state: suggestions, loading, error
    abortControllerRef, \* abortControllerRef.current (0 = null), an index in requests
    requests,         \* one record per AbortController created by fetchSuggestions
    \* ---- what callers observe ----
    lastCall,         \* the last call made to the hook or the last settling of a
                      \* request, and what could be seen of it
    debounce,         \* the last debouncedFetch call (who made it, its text, when) and
                      \* the callbacks run since: how many, the last one's text and time
    promises          \* the promise each debouncedFetch call returned, by timer id

hookVars == <<cfg, sortImpl, apiKey, now, mounted, timerTable, nextTimerId, text, currentMode,
              suggestions, dismissedIds, lastTextRef, debounceTimerRef, api,
              abortControllerRef, requests, lastCall, debounce, promises>>

VARIABLES
    \* ---- WritingProvider (autosave) and App (useDebounce) ----
    docTimers,        \* pending setTimeout timers of setText and of useDebounce
    nextDocTimerId,
    saveTimerRef,     \* saveTimerRef.current (0 = null)
    valueTimerRef,    \* the timer the cleanup of the useDebounce effect holds (0 = none)
    storage,          \* localStorage: the four keys of the storage service
    lastSave,         \* observation: the last call of the storage service
    isSaving,         \* isSaving
    lastSaved,        \* lastSaved
    debouncedValue    \* debouncedValue of useDebounce(text, 500)

docVars == <<docTimers, nextDocTimerId, saveTimerRef, valueTimerRef, storage, lastSave,
             isSaving, lastSaved, debouncedValue>>

vars == <<exVars, hookVars, docVars>>

----------------------------------------------------------------------------
(* Bounds *)

MaxRetriesOpt == 2      \* options.maxRetries ranges over 0..MaxRetriesOpt and the default

----------------------------------------------------------------------------
(* openai.service.ts CONFIG *)

CONFIG_maxRetries == 3
CONFIG_retryDelay == 1000
CONFIG_timeout == 30000

TimeUnit == CONFIG_retryDelay

RATE_LIMIT_ERROR_MESSAGE == "RATE_LIMIT_ERROR_MESSAGE"
NETWORK_ERROR_MESSAGE == "NETWORK_ERROR_MESSAGE"
API_ERROR_MESSAGE == "API_ERROR_MESSAGE"
MISSING_API_KEY_MESSAGE == "MISSING_API_KEY_MESSAGE"

----------------------------------------------------------------------------
(* JavaScript values *)

Undefined == "undefined"
NoStatus == 0                      \* error.status === undefined
NoError == [code |-> "", message |-> "", status |-> NoStatus, retryable |-> Undefined]

\* a boolean expression as a JS value, and JS truthiness of such a value
JsBool(b) == IF b THEN "true" ELSE "false"
Truthy(v) == v = "true"
\* a || b on values that are "true" | "false" | "undefined"
JsOr(a, b) == IF Truthy(a) THEN a ELSE b

RECURSIVE Pow2(_)
Pow2(n) == IF n = 0 THEN 1 ELSE 2 * Pow2(n - 1)

\* String.prototype.includes on character sequences
Includes(s, sub) ==
    \E i \in 1..(Len(s) - Len(sub) + 1) : SubSeq(s, i, i + Len(sub) - 1) = sub

\* the characters of the error messages that occur
MessageChars(m) ==
    CASE m = "Failed to fetch" ->
           <<"F","a","i","l","e","d"," ","t","o"," ","f","e","t","c","h">>
      [] m = "network down" ->
           <<"n","e","t","w","o","r","k"," ","d","o","w","n">>
      [] m = "connect ECONNREFUSED" ->
           <<"c","o","n","n","e","c","t"," ","E","C","O","N","N","R","E","F","U","S","E","D">>
      [] m = "getaddrinfo ENOTFOUND" ->
           <<"g","e","t","a","d","d","r","i","n","f","o"," ","E","N","O","T","F","O","U","N","D">>
      [] m = "Connection error." ->
           <<"C","o","n","n","e","c","t","i","o","n"," ","e","r","r","o","r",".">>
      [] m = "Request timeout" ->
           <<"R","e","q","u","e","s","t"," ","t","i","m","e","o","u","t">>
      [] m = "x.map is not a function" ->
           <<"x",".","m","a","p"," ","i","s"," ","n","o","t"," ","a"," ","f","u","n","c","t","i","o","n">>
      [] m = "Cannot read properties of null" ->
           <<"C","a","n","n","o","t"," ","r","e","a","d"," ","p","r","o","p","e","r","t","i","e","s",
             " ","o","f"," ","n","u","l","l">>
      [] OTHER -> <<>>

----------------------------------------------------------------------------
(* What an attempt can throw.  class is the JS class of the thrown value   *)
(* ("APIError" = instanceof OpenAI.APIError, "Error" = any other Error,    *)
(* "other" = not an Error); kind is the nature of the failure itself.      *)

Thrown(class, status, code, message, kind) ==
    [class |-> class, status |-> status, code |-> code, message |-> message, kind |-> kind]

RateLimited    == Thrown("APIError", 429, "rate_limit_exceeded", "Rate limit reached", "http")
ServerError500 == Thrown("APIError", 500, "", "Internal server error", "http")
ServerError503 == Thrown("APIError", 503, "", "", "http")
Unauthorized   == Thrown("APIError", 401, "invalid_api_key", "Incorrect API key", "http")
Forbidden      == Thrown("APIError", 403, "", "Forbidden", "http")
BadRequest     == Thrown("APIError", 400, "", "Bad request", "http")
\* the provider SDK's connection error: an APIError without a status
ConnectionError == Thrown("APIError", NoStatus, "", "Connection error.", "network")
FetchFailed    == Thrown("Error", NoStatus, "", "Failed to fetch", "network")
NetworkDown    == Thrown("Error", NoStatus, "", "network down", "network")
ConnRefused    == Thrown("Error", NoStatus, "", "connect ECONNREFUSED", "network")
DnsFailure     == Thrown("Error", NoStatus, "", "getaddrinfo ENOTFOUND", "network")
MapTypeError   == Thrown("Error", NoStatus, "", "x.map is not a function", "other")
NullTypeError  == Thrown("Error", NoStatus, "", "Cannot read properties of null", "other")
ThrownString   == Thrown("other", NoStatus, "", "", "other")
\* line 124: reject(new Error('Request timeout'))
TimeoutError   == Thrown("Error", NoStatus, "", "Request timeout", "timeout")

\* what requestFn itself can reject with
RequestErrors ==
    {RateLimited, ServerError500, ServerError503, Unauthorized, Forbidden, BadRequest,
     ConnectionError, FetchFailed, NetworkDown, ConnRefused, DnsFailure, ThrownString}

\* what requestFn can resolve with
RequestValues == {"v1", "v2"}

----------------------------------------------------------------------------
(* openai.service.ts *)

\* a backoff that grows linearly instead of doubling
getBackoffDelay_Linear(attempt, baseDelay) == baseDelay * (attempt + 1)

getBackoffDelay(attempt, baseDelay) == baseDelay * Pow2(attempt)

createApiError(error) ==
    IF error.class = "APIError"
    THEN LET isRateLimit == JsBool(error.status = 429)
             isServerError == IF error.status = NoStatus THEN Undefined
                              ELSE JsBool(error.status >= 500)
         IN  [code |-> IF error.code # "" THEN error.code ELSE "API_ERROR",
              message |-> IF Truthy(isRateLimit) THEN RATE_LIMIT_ERROR_MESSAGE
                          ELSE IF error.message # "" THEN error.message
                          ELSE API_ERROR_MESSAGE,
              status |-> error.status,
              retryable |-> JsOr(isRateLimit, isServerError)]
    ELSE IF error.class = "Error"
    THEN LET isNetworkError ==
                 \/ Includes(MessageChars(error.message), <<"f","e","t","c","h">>)
                 \/ Includes(MessageChars(error.message), <<"n","e","t","w","o","r","k">>)
         IN  [code |-> "NETWORK_ERROR",
              message |-> IF isNetworkError THEN NETWORK_ERROR_MESSAGE ELSE error.message,
              status |-> NoStatus,
              retryable |-> JsBool(isNetworkError)]
    ELSE [code |-> "UNKNOWN_ERROR", message |-> API_ERROR_MESSAGE,
          status |-> NoStatus, retryable |-> "false"]

\* makeRequestWithRetry is called: options are destructured with their
\* defaults and the first loop iteration runs up to its await.
Call(mr, to) ==
    /\ exPc = "idle"
    /\ exMaxRetries' = mr
    /\ exTimeout' = to
    /\ exAttempt' = 0
    /\ exLastError' = NoError
    /\ exCalls' = exCalls + 1
    /\ exElapsed' = 0
    /\ exPc' = "await"
    /\ UNCHANGED <<exResult, exSleeps, exErrors, exThrown, exResolved>>
    /\ UNCHANGED <<hookVars, docVars>>

\* a catch block that goes on to the next attempt without backing off
Catch_NoBackoff(error) ==
    LET apiError == createApiError(error) IN
    /\ exLastError' = apiError
    /\ exErrors' = Append(exErrors, apiError)
    /\ exThrown' = Append(exThrown, error)
    /\ IF ~Truthy(apiError.retryable) \/ exAttempt = exMaxRetries
       THEN /\ exPc' = "thrown"
            /\ UNCHANGED <<exAttempt, exCalls>>
       ELSE /\ exAttempt' = exAttempt + 1
            /\ exCalls' = exCalls + 1
            /\ exPc' = "await"
    /\ exElapsed' = 0
    /\ UNCHANGED <<exMaxRetries, exTimeout, exResult, exSleeps, exResolved>>
    /\ UNCHANGED <<hookVars, docVars>>

\* the catch block of the loop body, for the value the race rejected with
Catch(error) ==
    LET apiError == createApiError(error) IN
    /\ exLastError' = apiError
    /\ exErrors' = Append(exErrors, apiError)
    /\ exThrown' = Append(exThrown, error)
    /\ IF ~Truthy(apiError.retryable) \/ exAttempt = exMaxRetries
       THEN /\ exPc' = "thrown"
            /\ UNCHANGED <<exSleeps, exElapsed>>
       ELSE /\ exSleeps' = Append(exSleeps, getBackoffDelay(exAttempt, CONFIG_retryDelay))
            /\ exElapsed' = 0
            /\ exPc' = "sleep"
    /\ UNCHANGED <<exMaxRetries, exTimeout, exAttempt, exResult, exCalls, exResolved>>
    /\ UNCHANGED <<hookVars, docVars>>

\* requestFn() wins the race with a value: line 128 returns it
RequestResolves(v) ==
    /\ exPc = "await"
    /\ exResult' = v
    /\ exResolved' = Append(exResolved, [attempt |-> exAttempt, value |-> v])
    /\ exPc' = "returned"
    /\ UNCHANGED <<exMaxRetries, exTimeout, exAttempt, exLastError, exElapsed,
                   exCalls, exSleeps, exErrors, exThrown>>
    /\ UNCHANGED <<hookVars, docVars>>

\* requestFn() wins the race with a rejection
RequestRejects(e) ==
    /\ exPc = "await"
    /\ Catch(e)

\* the timeout promise wins the race
TimeoutFires ==
    /\ exPc = "await"
    /\ exElapsed >= exTimeout
    /\ Catch(TimeoutError)

\* sleep(delay) is over: attempt++, the loop condition holds, next requestFn()
SleepDone ==
    /\ exPc = "sleep"
    /\ exElapsed >= exSleeps[Len(exSleeps)]
    /\ exAttempt' = exAttempt + 1
    /\ exCalls' = exCalls + 1
    /\ exElapsed' = 0
    /\ exPc' = "await"
    /\ UNCHANGED <<exMaxRetries, exTimeout, exLastError, exResult, exSleeps,
                   exErrors, exThrown, exResolved>>
    /\ UNCHANGED <<hookVars, docVars>>

\* time passes while the executor is suspended on a timer
ExTick ==
    /\ \/ exPc = "await" /\ exElapsed < exTimeout
       \/ exPc = "sleep" /\ exElapsed < exSleeps[Len(exSleeps)]
    /\ exElapsed' = exElapsed + TimeUnit
    /\ UNCHANGED <<exPc, exMaxRetries, exTimeout, exAttempt, exLastError, exResult,
                   exCalls, exSleeps, exErrors, exThrown, exResolved>>
    /\ UNCHANGED <<hookVars, docVars>>

ExInit ==
    /\ exPc = "idle"
    /\ exMaxRetries = CONFIG_maxRetries
    /\ exTimeout = CONFIG_timeout
    /\ exAttempt = 0
    /\ exLastError = NoError
    /\ exResult = ""
    /\ exElapsed = 0
    /\ exCalls = 0
    /\ exSleeps = <<>>
    /\ exErrors = <<>>
    /\ exThrown = <<>>
    /\ exResolved = <<>>

----------------------------------------------------------------------------
(* Texts are sequences of characters *)

RECURSIVE Rep(_, _)
Rep(c, n) == IF n = 0 THEN <<>> ELSE <<c>> \o Rep(c, n - 1)

IsSpace(c) == c \in {" ", "\t", "\n"}

\* String.prototype.trim
RECURSIVE TrimStart(_)
TrimStart(s) == IF s # <<>> /\ IsSpace(Head(s)) THEN TrimStart(Tail(s)) ELSE s
RECURSIVE TrimEnd(_)
TrimEnd(s) ==
    IF s # <<>> /\ IsSpace(s[Len(s)]) THEN TrimEnd(SubSeq(s, 1, Len(s) - 1)) ELSE s
Trim(s) == TrimEnd(TrimStart(s))

----------------------------------------------------------------------------
(* textAnalysis: calculateReadability and analyzeTone *)

LowerLetters ==
    <<"a", "b", "c", "d", "e", "f", "g", "h", "i", "j", "k", "l", "m", "n", "o", "p", "q", "r", "s", "t", "u", "v", "w", "x", "y", "z">>
UpperLetters ==
    <<"A", "B", "C", "D", "E", "F", "G", "H", "I", "J", "K", "L", "M", "N", "O", "P", "Q", "R", "S", "T", "U", "V", "W", "X", "Y", "Z">>
Range(f) == {f[i] : i \in DOMAIN f}

\* String.prototype.toLowerCase and toUpperCase
LowerChar(c) ==
    IF c \in Range(UpperLetters)
    THEN LowerLetters[CHOOSE i \in 1..Len(UpperLetters) : UpperLetters[i] = c]
    ELSE c
toLowerCase(s) == [i \in 1..Len(s) |-> LowerChar(s[i])]
toUpperCase(s) ==
    [i \in 1..Len(s) |->
        IF s[i] \in Range(LowerLetters)
        THEN UpperLetters[CHOOSE k \in 1..Len(LowerLetters) : LowerLetters[k] = s[i]]
        ELSE s[i]]

\* the maximal runs of s made of characters that are in chars (inside = TRUE)
\* or that are not in chars (inside = FALSE), from left to right
RECURSIVE RunsFrom(_, _, _, _, _)
RunsFrom(s, chars, inside, cur, acc) ==
    IF s = <<>>
    THEN IF cur = <<>> THEN acc ELSE Append(acc, cur)
    ELSE IF (Head(s) \in chars) = inside
         THEN RunsFrom(Tail(s), chars, inside, Append(cur, Head(s)), acc)
         ELSE RunsFrom(Tail(s), chars, inside, <<>>,
                       IF cur = <<>> THEN acc ELSE Append(acc, cur))
Runs(s, chars, inside) == RunsFrom(s, chars, inside, <<>>, <<>>)

\* the characters \b tells apart from the rest: [A-Za-z0-9_]
WordChars == Range(LowerLetters) \cup Range(UpperLetters) \cup {"0", "1", "2", "3", "4", "5", "6", "7", "8", "9", "_"}
Vowels == {"a", "e", "i", "o", "u", "y"}

\* count in a row of the character c somewhere in s
HasRun(s, c, count) ==
    \E i \in 1..(Len(s) - count + 1) : \A k \in 0..(count - 1) : s[i + k] = c

\* the maximal runs of word characters of a text
WordsOf(lowerText) == Range(Runs(lowerText, WordChars, TRUE))

\* pattern.test(lowerText): /\b(w1|w2|...)\b/ matches when one of the words
\* is a maximal run of word characters of the text (textWords)
PatternTest(pattern, lowerText, textWords) ==
    IF pattern.kind = "words"
    THEN textWords \cap pattern.words # {}
    ELSE HasRun(lowerText, pattern.char, pattern.count)

\* formal indicators
formalPatterns ==
    << [kind |-> "words", words |-> {
          <<"t", "h", "e", "r", "e", "f", "o", "r", "e">>,
          <<"f", "u", "r", "t", "h", "e", "r", "m", "o", "r", "e">>,
          <<"m", "o", "r", "e", "o", "v", "e", "r">>,
          <<"c", "o", "n", "s", "e", "q", "u", "e", "n", "t", "l", "y">>,
          <<"t", "h", "u", "s">>, <<"h", "e", "n", "c", "e">>}],
       [kind |-> "words", words |-> {
          <<"r", "e", "g", "a", "r", "d", "i", "n", "g">>,
          <<"p", "u", "r", "s", "u", "a", "n", "t">>,
          <<"h", "e", "r", "e", "w", "i", "t", "h">>,
          <<"h", "e", "r", "e", "b", "y">>}],
       [kind |-> "words", words |-> {
          <<"s", "h", "a", "l", "l">>, <<"o", "u", "g", "h", "t">>,
          <<"m", "u", "s", "t">>}] >>

\* casual indicators; /[!]{2,}/ is two exclamation marks in a row
casualPatterns ==
    << [kind |-> "words", words |-> {
          <<"y", "e", "a", "h">>, <<"y", "e", "p">>, <<"n", "o", "p", "e">>,
          <<"g", "o", "n", "n", "a">>, <<"w", "a", "n", "n", "a">>,
          <<"k", "i", "n", "d", "a">>, <<"s", "o", "r", "t", "a">>}],
       [kind |-> "words", words |-> {
          <<"c", "o", "o", "l">>, <<"a", "w", "e", "s", "o", "m", "e">>,
          <<"g", "r", "e", "a", "t">>, <<"n", "i", "c", "e">>}],
       [kind |-> "run", char |-> "!", count |-> 2],
       [kind |-> "words", words |-> {
          <<"l", "o", "l">>, <<"b", "t", "w">>, <<"t", "b", "h">>,
          <<"i", "m", "o">>}] >>

\* technical indicators
technicalPatterns ==
    << [kind |-> "words", words |-> {
          <<"a", "l", "g", "o", "r", "i", "t", "h", "m">>,
          <<"f", "u", "n", "c", "t", "i", "o", "n">>,
          <<"p", "a", "r", "a", "m", "e", "t", "e", "r">>,
          <<"v", "a", "r", "i", "a", "b", "l", "e">>,
          <<"i", "m", "p", "l", "e", "m", "e", "n", "t", "a", "t", "i", "o", "n">>,
          <<"o", "p", "t", "i", "m", "i", "z", "e">>}],
       [kind |-> "words", words |-> {
          <<"m", "e", "t", "h", "o", "d", "o", "l", "o", "g", "y">>,
          <<"a", "n", "a", "l", "y", "s", "i", "s">>,
          <<"f", "r", "a", "m", "e", "w", "o", "r", "k">>,
          <<"a", "r", "c", "h", "i", "t", "e", "c", "t", "u", "r", "e">>,
          <<"i", "n", "f", "r", "a", "s", "t", "r", "u", "c", "t", "u", "r", "e">>}],
       [kind |-> "words", words |-> {
          <<"i", "n", "t", "e", "r", "f", "a", "c", "e">>,
          <<"c", "o", "m", "p", "o", "n", "e", "n", "t">>,
          <<"m", "o", "d", "u", "l", "e">>,
          <<"p", "r", "o", "t", "o", "c", "o", "l">>}] >>

\* creative indicators; /[.]{3}/ is three dots in a row
creativePatterns ==
    << [kind |-> "words", words |-> {
          <<"i", "m", "a", "g", "i", "n", "e">>,
          <<"e", "n", "v", "i", "s", "i", "o", "n">>,
          <<"d", "r", "e", "a", "m">>, <<"w", "o", "n", "d", "e", "r">>,
          <<"m", "a", "g", "i", "c", "a", "l">>,
          <<"e", "n", "c", "h", "a", "n", "t", "i", "n", "g">>}],
       [kind |-> "words", words |-> {
          <<"v", "i", "b", "r", "a", "n", "t">>,
          <<"b", "r", "i", "l", "l", "i", "a", "n", "t">>,
          <<"d", "a", "z", "z", "l", "i", "n", "g">>,
          <<"m", "e", "s", "m", "e", "r", "i", "z", "i", "n", "g">>}],
       [kind |-> "run", char |-> ".", count |-> 3] >>

\* patterns.reduce((score, pattern) => score + (pattern.test(lowerText) ? 1 : 0), 0)
ToneScore(patterns, lowerText, textWords) ==
    Cardinality({i \in 1..Len(patterns) : PatternTest(patterns[i], lowerText, textWords)})

\* Object.keys(scores), in the order the object literal lists them
ToneKeys == <<"formal", "casual", "technical", "creative">>

ToneScores(t) ==
    LET lowerText == toLowerCase(t)
        textWords == WordsOf(lowerText)
    IN  [formal |-> ToneScore(formalPatterns, lowerText, textWords),
         casual |-> ToneScore(casualPatterns, lowerText, textWords),
         technical |-> ToneScore(technicalPatterns, lowerText, textWords),
         creative |-> ToneScore(creativePatterns, lowerText, textWords)]

Max(S) == CHOOSE x \in S : \A y \in S : y <= x

\* a find() that returns the last key with the highest score
analyzeTone_LastWins(t) ==
    LET scores == ToneScores(t)
        maxScore == Max({scores[ToneKeys[i]] : i \in 1..Len(ToneKeys)})
    IN  IF maxScore = 0
        THEN "neutral"
        ELSE ToneKeys[Max({i \in 1..Len(ToneKeys) : scores[ToneKeys[i]] = maxScore})]

\* analyzeTone(text)
analyzeTone(t) ==
    LET scores == ToneScores(t)
        maxScore == Max({scores[ToneKeys[i]] : i \in 1..Len(ToneKeys)})
    IN  IF maxScore = 0
        THEN "neutral"
        ELSE ToneKeys[CHOOSE i \in 1..Len(ToneKeys) :
                        /\ scores[ToneKeys[i]] = maxScore
                        /\ \A j \in 1..(i - 1) : scores[ToneKeys[j]] # maxScore]

\* countSyllables(word)
countSyllables(word) ==
    LET w == SelectSeq(toLowerCase(word), LAMBDA c : c \in Range(LowerLetters))
        vowelGroups == Len(Runs(w, Vowels, TRUE))
        counted == IF vowelGroups > 0 THEN vowelGroups ELSE 1
        silentE == IF w[Len(w)] = "e" THEN counted - 1 ELSE counted
        leEnding == IF /\ w[Len(w)] = "e"
                       /\ w[Len(w) - 1] = "l"
                       /\ Len(w) > 2
                       /\ w[Len(w) - 2] \notin Vowels
                    THEN silentE + 1 ELSE silentE
    IN  IF Len(w) <= 3 THEN 1 ELSE IF leEnding > 1 THEN leEnding ELSE 1

RECURSIVE SumSyllables(_)
SumSyllables(words) ==
    IF words = <<>> THEN 0 ELSE countSyllables(Head(words)) + SumSyllables(Tail(words))

\* Math.round of the quotient num / den, den > 0: floor(num / den + 1/2)
RoundQuotient(num, den) == (2 * num + den) \div (2 * den)

\* the score before it is clamped, Math.round(206.835 - 1.015 * words /
\* sentences - 84.6 * syllables / words), computed exactly in thousandths
FleschRounded(sentenceCount, wordCount, syllableCount) ==
    RoundQuotient(206835 * sentenceCount * wordCount
                    - 1015 * wordCount * wordCount
                    - 84600 * syllableCount * sentenceCount,
                  1000 * sentenceCount * wordCount)

\* a calculateReadability that returns the score as rounded, not clamped
calculateReadability_NoClamp(t) ==
    LET trimmedText == Trim(t)
        sentences == SelectSeq(Runs(trimmedText, {".", "!", "?"}, FALSE),
                               LAMBDA sentence : Len(Trim(sentence)) > 0)
        sentenceCount == IF Len(sentences) > 1 THEN Len(sentences) ELSE 1
        words == Runs(trimmedText, {" ", "\t", "\n"}, FALSE)
        wordCount == IF Len(words) > 1 THEN Len(words) ELSE 1
    IN  IF trimmedText = <<>>
        THEN 0
        ELSE FleschRounded(sentenceCount, wordCount, SumSyllables(words))

\* calculateReadability(text)
calculateReadability(t) ==
    LET trimmedText == Trim(t)
        sentences == SelectSeq(Runs(trimmedText, {".", "!", "?"}, FALSE),
                               LAMBDA sentence : Len(Trim(sentence)) > 0)
        sentenceCount == IF Len(sentences) > 1 THEN Len(sentences) ELSE 1
        words == Runs(trimmedText, {" ", "\t", "\n"}, FALSE)
        wordCount == IF Len(words) > 1 THEN Len(words) ELSE 1
        score == FleschRounded(sentenceCount, wordCount, SumSyllables(words))
    IN  IF trimmedText = <<>>
        THEN 0
        ELSE IF score > 100 THEN 100 ELSE IF score < 0 THEN 0 ELSE score

----------------------------------------------------------------------------

\* String.prototype.indexOf, 1-based; 0 when there is no occurrence
IndexOf(s, sub) ==
    IF Includes(s, sub)
    THEN CHOOSE i \in 1..(Len(s) - Len(sub) + 1) :
            /\ SubSeq(s, i, i + Len(sub) - 1) = sub
            /\ \A j \in 1..(i - 1) : SubSeq(s, j, j + Len(sub) - 1) # sub
    ELSE 0

\* GetSubstitution of ECMAScript for a string pattern (no capture groups):
\* in the replacement, $$ is a dollar sign, $& the matched text, $` the text
\* before the match, $' the text after it; any other $ stands for itself.
RECURSIVE GetSubstitution(_, _, _, _)
GetSubstitution(matched, before, after, repl) ==
    IF repl = <<>> THEN <<>>
    ELSE IF Head(repl) = "$" /\ Len(repl) >= 2 /\ repl[2] \in {"$", "&", "`", "'"}
    THEN (CASE repl[2] = "$" -> <<"$">>
            [] repl[2] = "&" -> matched
            [] repl[2] = "`" -> before
            [] repl[2] = "'" -> after)
         \o GetSubstitution(matched, before, after, SubSeq(repl, 3, Len(repl)))
    ELSE <<Head(repl)>> \o GetSubstitution(matched, before, after, Tail(repl))

\* the first occurrence of pattern in str replaced by repl, repl taken as it is
ReplaceFirstOccurrence(str, pattern, repl) ==
    LET i == IndexOf(str, pattern) IN
    IF i = 0 THEN str
    ELSE SubSeq(str, 1, i - 1) \o repl \o SubSeq(str, i + Len(pattern), Len(str))

\* String.prototype.replace(pattern, replacement) with a string pattern
StringReplace(str, pattern, repl) ==
    LET i == IndexOf(str, pattern) IN
    IF i = 0 THEN str
    ELSE LET before == SubSeq(str, 1, i - 1)
             after == SubSeq(str, i + Len(pattern), Len(str))
         IN  before \o GetSubstitution(pattern, before, after, repl) \o after

----------------------------------------------------------------------------
(* Optional values: s.suggestedText may be undefined *)

None == [defined |-> FALSE, v |-> <<>>]
Some(x) == [defined |-> TRUE, v |-> x]
\* !x for an optional string: undefined and '' are falsy
Falsy(x) == ~x.defined \/ x.v = <<>>

----------------------------------------------------------------------------
(* The provider's reply.  content is the text of the completion: a JSON    *)
(* text, possibly inside a fence; a JSON text is either unparsable or      *)
(* parses to an array of partial suggestions, to an object or to null.     *)

Item(severity, originalText, suggestedText) ==
    [severity |-> severity, originalText |-> originalText, suggestedText |-> suggestedText]

Content(fence, valid, type, items) ==
    [fence |-> fence, valid |-> valid, type |-> type, items |-> items]

ItemsA == << Item("", Some(<<"a">>), Some(<<"$", "$">>)),
             Item("error", Some(<<"a", "b">>), None) >>
ItemsB == << Item("info", Some(<<"b">>), Some(<<"a", "a">>)),
             Item("info", None, Some(<<"b">>)) >>
\* a batch with a severity that is none of the four of WritingSuggestion
ItemsC == << Item("info", Some(<<"b">>), None),
             Item("critical", Some(<<"a">>), Some(<<"b">>)),
             Item("error", Some(<<"a">>), Some(<<"b">>)) >>

Contents ==
    { Content("none", TRUE, "array", ItemsA),
      Content("json", TRUE, "array", ItemsB),
      Content("none", TRUE, "array", <<>>),
      Content("none", FALSE, "array", ItemsA),
      Content("plain", TRUE, "array", ItemsB),
      Content("none", TRUE, "object", <<>>),
      Content("none", TRUE, "null", <<>>) }

\* parseJsonResponse: the value JSON.parse gives, or the fallback.  Only a
\* ```json fence is stripped; any other fence makes JSON.parse throw.
parseJsonResponse(content, fallback) ==
    IF content.valid /\ content.fence \in {"none", "json"}
    THEN [type |-> content.type, items |-> content.items]
    ELSE fallback

\* getSuggestions lines 266-276: the map over the parsed array
MapSuggestions(items, t) ==
    [i \in 1..Len(items) |->
        [id |-> <<t, i - 1>>,
         severity |-> IF items[i].severity # "" THEN items[i].severity ELSE "suggestion",
         originalText |-> IF Falsy(items[i].originalText) THEN <<>>
                          ELSE items[i].originalText.v,
         suggestedText |-> items[i].suggestedText]]

\* the outcome of getSuggestions (lines 251-277) for a completion: a value,
\* or the TypeError of calling map on something that is not an array, which
\* makeRequestWithRetry catches, classifies as not retryable and throws
RequestFnOutcome(content, t) ==
    LET parsed == parseJsonResponse(content, [type |-> "array", items |-> <<>>]) IN
    IF parsed.type = "array"
    THEN [ok |-> TRUE, value |-> MapSuggestions(parsed.items, t), error |-> NoError]
    ELSE [ok |-> FALSE, value |-> <<>>,
          error |-> createApiError(IF parsed.type = "null" THEN NullTypeError
                                   ELSE MapTypeError)]

\* failures of the transport that end makeRequestWithRetry in the pipeline
PipelineFailures == {RateLimited, Unauthorized}

----------------------------------------------------------------------------
(* useSuggestions: the list the hook returns *)

severityOrder(sev) ==
    CASE sev = "error" -> 0 [] sev = "warning" -> 1 [] sev = "info" -> 2
      [] sev = "suggestion" -> 3

\* severityOrder[sev] is undefined for any other severity
KnownSeverity(sev) == sev \in {"error", "warning", "info", "suggestion"}

\* the comparator of line 177 as sort() takes it: the difference of the
\* ranks, and +0 when it is NaN because a rank is undefined
SortCompare(a, b) ==
    IF KnownSeverity(a.severity) /\ KnownSeverity(b.severity)
    THEN severityOrder(a.severity) - severityOrder(b.severity)
    ELSE 0

\* a consistent comparator (ECMAScript 23.1.3.30): here the only condition
\* that can fail is the transitivity of "compares equal"
ConsistentComparator(f) ==
    \A i, j, k \in 1..Len(f) :
        SortCompare(f[i], f[j]) = 0 /\ SortCompare(f[j], f[k]) = 0
            => SortCompare(f[i], f[k]) = 0

\* the stable sort of f by a consistent comparator
RECURSIVE StableSort(_)
StableSort(f) ==
    IF f = <<>> THEN <<>>
    ELSE LET IsMin(i) == \A j \in 1..Len(f) : SortCompare(f[i], f[j]) <= 0
             i == CHOOSE i \in 1..Len(f) : IsMin(i) /\ \A j \in 1..(i - 1) : ~IsMin(j)
         IN  <<f[i]>> \o StableSort(SubSeq(f, 1, i - 1) \o SubSeq(f, i + 1, Len(f)))

\* the orders a sort may leave a list in when the comparator is not
\* consistent: any permutation of its positions
SortImpls == Permutations(1..Len(ItemsC))
SortInPlace == [k \in 1..Len(ItemsC) |-> k]
ImplementationOrder(f) ==
    LET idx == SelectSeq(sortImpl, LAMBDA p : p <= Len(f)) IN
    [k \in 1..Len(f) |-> f[idx[k]]]

filteredSuggestions(list, dismissed) == SelectSeq(list, LAMBDA x : x.id \notin dismissed)

\* [...filteredSuggestions].sort(by severityOrder): stable (ES2019) when the
\* comparator is consistent, implementation-defined otherwise
sortedSuggestions(list, dismissed) ==
    LET f == filteredSuggestions(list, dismissed) IN
    IF ConsistentComparator(f) THEN StableSort(f) ELSE ImplementationOrder(f)

Visible == sortedSuggestions(suggestions, dismissedIds)

Ids(list) == {list[i].id : i \in 1..Len(list)}

----------------------------------------------------------------------------
(* Hook configuration (part_007) *)

DEFAULT_debounceMs == 3000       \* useSuggestions DEFAULT_OPTIONS.debounceMs
AUTO_SAVE_DELAY == 2000          \* WritingContext.tsx
DebouncedTextDelay == 500        \* App.tsx: useDebounce(text, 500)
DEFAULT_minTextLength == 100     \* useSuggestions DEFAULT_OPTIONS.minTextLength
OPENAI_minTextLength == 50       \* useOpenAI DEFAULT_OPTIONS.minTextLength

\* bounds of the exploration
MaxRequests == 2                 \* AbortControllers created per run
MaxInFlight == 2                 \* requests pending at the same time
MaxTimers == 2                   \* debounce timers scheduled per run
MaxFragments == 3                \* pieces of an analysed text
MaxTicks == 1                    \* clock steps per run, beyond one debounce delay
                                 \* when autoFetch is on

Modes == {"casual", "technical"}

\* document texts: empty, 100 characters, and 101 characters of which 99
\* remain after trim()
A100 == Rep("a", 100)
B100 == Rep("b", 100)
Padded99 == <<" ">> \o Rep("a", 99) \o <<"\n">>
DocTexts == {<<>>, Padded99, A100, B100}

\* a minTextLength option below the 50 of useOpenAI, and texts around both
ShortMinTextLength == 10
ShortTexts == {<<>>, Rep("a", 20), Rep("b", 60), A100}

\* the currentText arguments tried with applySuggestion
ApplyTexts == {<<"a", "b", "a">>}

Null == [null |-> TRUE]

\* what the catch block of useOpenAI.fetchSuggestions receives: the ApiError
\* object thrown by makeRequestWithRetry, or the Error of getOpenAIClient
Caught(apiError) ==
    [instanceOfError |-> FALSE, name |-> Undefined, code |-> apiError.code,
     message |-> apiError.message, status |-> apiError.status,
     retryable |-> apiError.retryable]
MissingKeyError ==
    [instanceOfError |-> TRUE, name |-> "Error", code |-> Undefined,
     message |-> MISSING_API_KEY_MESSAGE, status |-> NoStatus, retryable |-> Undefined]

NoSuggestion == [id |-> <<0, 0>>, severity |-> "", originalText |-> <<>>,
                 suggestedText |-> None]
NoCall == [op |-> "", text |-> <<>>, suggestion |-> NoSuggestion, result |-> <<>>,
           wasLastAttempted |-> FALSE, wasLastFetched |-> FALSE, hadError |-> FALSE,
           requestStarted |-> FALSE, stateChanged |-> FALSE,
           request |-> 0, payload |-> FALSE, error |-> Null, tooShort |-> FALSE]
NoTrigger == [by |-> "", text |-> <<>>, at |-> 0, fired |-> 0, firedText |-> <<>>,
              firedAt |-> 0]

\* the text of the most recently issued network request, <<>> if none
LastFetchText(reqs) ==
    LET sent == SelectSeq(reqs, LAMBDA r : r.sent) IN
    IF sent = <<>> THEN <<>> ELSE sent[Len(sent)].text

----------------------------------------------------------------------------
(* useOpenAI *)

\* abortRequest: abort() marks the controller's signal and the ref is nulled.
\* The signal travels in the options of getSuggestions, where only
\* maxRetries and timeout are read (openai.service.ts 117): nothing in the
\* request reads it.
abortRequest(reqs, ref) ==
    IF ref # 0 THEN [reqs EXCEPT ![ref].aborted = TRUE] ELSE reqs

\* useOpenAI.fetchSuggestions(text, mode) up to its await, and, when the API
\* key is missing, through its catch block (getOpenAIClient throws before
\* any request is made).  The result is the new api state, controllers and ref.
useOpenAI_fetchSuggestions(t, m) ==
    IF Len(Trim(t)) < OPENAI_minTextLength
    THEN [api |-> api, requests |-> requests, ref |-> abortControllerRef]
    ELSE LET newReq == [text |-> t, aborted |-> FALSE, sent |-> apiKey,
                        status |-> IF apiKey THEN "pending" ELSE "rejected"]
         IN  [api |-> IF apiKey THEN [api EXCEPT !.loading = TRUE, !.error = Null]
                      ELSE [api EXCEPT !.loading = FALSE, !.error = MissingKeyError],
              requests |-> Append(abortRequest(requests, abortControllerRef), newReq),
              ref |-> Len(requests) + 1]

\* line 400: error instanceof Error && error.name === 'AbortError'
IsAbortError(caught) == caught.instanceOfError /\ caught.name = "AbortError"

----------------------------------------------------------------------------
(* useSuggestions *)

\* a fetchSuggestions without the unchanged-text test
useSuggestions_fetchSuggestions_NoDedup(t, m) ==
    IF t = <<>> \/ Len(Trim(t)) < cfg.minTextLength
    THEN [suggestions |-> <<>>, lastTextRef |-> lastTextRef,
          api |-> api, requests |-> requests, ref |-> abortControllerRef]
    ELSE LET o == useOpenAI_fetchSuggestions(t, m) IN
         [suggestions |-> suggestions, lastTextRef |-> t,
          api |-> o.api, requests |-> o.requests, ref |-> o.ref]

\* a fetchSuggestions that leaves the list alone when the text is too short
useSuggestions_fetchSuggestions_KeepsList(t, m) ==
    IF t = <<>> \/ Len(Trim(t)) < cfg.minTextLength
    THEN [suggestions |-> suggestions, lastTextRef |-> lastTextRef,
          api |-> api, requests |-> requests, ref |-> abortControllerRef]
    ELSE IF t = lastTextRef
    THEN [suggestions |-> suggestions, lastTextRef |-> lastTextRef,
          api |-> api, requests |-> requests, ref |-> abortControllerRef]
    ELSE LET o == useOpenAI_fetchSuggestions(t, m) IN
         [suggestions |-> suggestions, lastTextRef |-> t,
          api |-> o.api, requests |-> o.requests, ref |-> o.ref]

\* useSuggestions.fetchSuggestions(text) with the mode its closure holds
useSuggestions_fetchSuggestions(t, m) ==
    IF t = <<>> \/ Len(Trim(t)) < cfg.minTextLength
    THEN [suggestions |-> <<>>, lastTextRef |-> lastTextRef,
          api |-> api, requests |-> requests, ref |-> abortControllerRef]
    ELSE IF t = lastTextRef
    THEN [suggestions |-> suggestions, lastTextRef |-> lastTextRef,
          api |-> api, requests |-> requests, ref |-> abortControllerRef]
    ELSE LET o == useOpenAI_fetchSuggestions(t, m) IN
         [suggestions |-> suggestions, lastTextRef |-> t,
          api |-> o.api, requests |-> o.requests, ref |-> o.ref]

\* the state a fetchSuggestions call leaves, and what the caller can see of it
DoFetch(op, t, m) ==
    LET f == useSuggestions_fetchSuggestions(t, m) IN
    /\ Len(f.requests) <= MaxRequests
    /\ Cardinality({r \in 1..Len(f.requests) : f.requests[r].status = "pending"})
            <= MaxInFlight
    /\ suggestions' = f.suggestions
    /\ lastTextRef' = f.lastTextRef
    /\ api' = f.api
    /\ requests' = f.requests
    /\ abortControllerRef' = f.ref
    /\ lastCall' = [NoCall EXCEPT
            !.op = op,
            !.tooShort = (t = <<>> \/ Len(Trim(t)) < cfg.minTextLength),
            !.wasLastAttempted = (t # <<>> /\ t = lastTextRef),
            !.wasLastFetched = (t # <<>> /\ t = LastFetchText(requests)),
            !.hadError = (api.error # Null),
            !.requestStarted = (Len(f.requests) > Len(requests) /\ apiKey),
            !.request = IF Len(f.requests) > Len(requests) THEN Len(f.requests) ELSE 0,
            !.error = IF Len(f.requests) > Len(requests) /\ ~apiKey THEN MissingKeyError
                      ELSE Null,
            !.stateChanged = (<<f.suggestions, f.lastTextRef, f.api, f.requests, f.ref>>
                              # <<suggestions, lastTextRef, api, requests, abortControllerRef>>)]

\* a debouncedFetch that leaves the pending timer in place
debouncedFetch_NoClear(by, t, m) ==
    /\ nextTimerId <= MaxTimers
    /\ timerTable' = timerTable \cup
            {[id |-> nextTimerId, text |-> t, due |-> now + cfg.debounceMs]}
    /\ debounceTimerRef' = nextTimerId
    /\ nextTimerId' = nextTimerId + 1
    /\ debounce' = [NoTrigger EXCEPT !.by = by, !.text = t, !.at = now]
    /\ promises' = Append(promises, [status |-> "scheduled", request |-> 0])

\* debouncedFetch(text): clearTimeout of the timer the ref names, then a new
\* timer whose callback calls fetchSuggestions(text)
debouncedFetch(by, t, m) ==
    /\ nextTimerId <= MaxTimers
    /\ timerTable' = {tm \in timerTable : tm.id # debounceTimerRef} \cup
            {[id |-> nextTimerId, text |-> t, due |-> now + cfg.debounceMs]}
    /\ debounceTimerRef' = nextTimerId
    /\ nextTimerId' = nextTimerId + 1
    /\ debounce' = [NoTrigger EXCEPT !.by = by, !.text = t, !.at = now]
    /\ promises' = Append(promises, [status |-> "scheduled", request |-> 0])

NoTimerChange == UNCHANGED <<timerTable, debounceTimerRef, nextTimerId, debounce, promises>>

\* the auto-fetch effect (lines 181-185), run for text t and mode m
AutoFetchEffect(by, t, m) ==
    IF cfg.autoFetch /\ t # <<>> /\ Len(Trim(t)) >= cfg.minTextLength
    THEN debouncedFetch(by, t, m)
    ELSE NoTimerChange

\* the text useWritingMode() gives the hook changes: the re-render of
\* useSuggestions with the new text
EditHooks(t) ==
    /\ mounted
    /\ t # text
    /\ text' = t
    /\ AutoFetchEffect("edit", t, currentMode)
    /\ UNCHANGED <<cfg, sortImpl, apiKey, now, mounted, currentMode, suggestions, dismissedIds,
                   lastTextRef, api, abortControllerRef, requests, lastCall>>
    /\ UNCHANGED exVars

\* an edit as useSuggestions sees it
Edit(t) ==
    /\ EditHooks(t)
    /\ UNCHANGED docVars

\* WritingContext.setText(newText) with a changed text (lines 122-141): the
\* autosave timer is replaced; then the re-render: the effect of
\* useDebounce(text, 500) replaces its timer and useSuggestions sees the text
SetText(t) ==
    /\ nextDocTimerId < 2 * MaxTimers + 1
    /\ EditHooks(t)
    /\ docTimers' = {tm \in docTimers : tm.id \notin {saveTimerRef, valueTimerRef}} \cup
            { [id |-> nextDocTimerId, kind |-> "save", value |-> t,
               due |-> now + AUTO_SAVE_DELAY],
              [id |-> nextDocTimerId + 1, kind |-> "value", value |-> t,
               due |-> now + DebouncedTextDelay] }
    /\ saveTimerRef' = nextDocTimerId
    /\ valueTimerRef' = nextDocTimerId + 1
    /\ nextDocTimerId' = nextDocTimerId + 2
    /\ isSaving' = TRUE
    /\ UNCHANGED <<storage, lastSave, lastSaved, debouncedValue>>

\* ---- storage.service ----
Absent == [present |-> FALSE]
Stored(v) == [present |-> TRUE, value |-> v]

\* what localStorage does with a write: it stores the value; or it is not
\* available (isLocalStorageAvailable() is false, which is also the case
\* when not even the test key fits); or the test key fits and the value does
\* not (QuotaExceededError); or setItem throws something else
SetItemOutcomes == {"stored", "unavailable", "quota", "error"}

removeItem(st, key) == [st EXCEPT ![key] = Absent]

clearStorage(st) ==
    removeItem(removeItem(removeItem(removeItem(st, "TEXT"), "MODE"), "LAST_SAVED"),
               "PREFERENCES")

clearOldData(st) == clearStorage(st)

\* setItem(key, value): the storage afterwards, the boolean returned, and
\* whether an exception leaves the function (the catch takes every one)
setItem(st, key, value, outcome) ==
    CASE outcome = "stored"
           -> [storage |-> [st EXCEPT ![key] = Stored(value)], ok |-> TRUE, thrown |-> FALSE]
      [] outcome = "quota"
           -> [storage |-> clearOldData(st), ok |-> FALSE, thrown |-> FALSE]
      [] outcome \in {"unavailable", "error"}
           -> [storage |-> st, ok |-> FALSE, thrown |-> FALSE]

\* saveText(text): the time stamp is written only after the text was
saveText(st, t, o1, o2, at) ==
    LET first == setItem(st, "TEXT", t, o1)
        second == setItem(first.storage, "LAST_SAVED", at, o2)
    IN  IF first.ok
        THEN [storage |-> second.storage, ok |-> TRUE, thrown |-> second.thrown]
        ELSE first

saveMode(st, m, outcome) == setItem(st, "MODE", m, outcome)

DEFAULT_PREFERENCES == [autoSave |-> TRUE, autoSaveDelay |-> 2000, theme |-> "auto"]

loadPreferences(st) ==
    IF st.PREFERENCES.present THEN st.PREFERENCES.value ELSE DEFAULT_PREFERENCES

\* savePreferences({theme}): the stored preferences with the theme replaced
savePreferences(st, theme, outcome) ==
    setItem(st, "PREFERENCES", [loadPreferences(st) EXCEPT !.theme = theme], outcome)

NoSave == [op |-> "none", ok |-> FALSE, thrown |-> FALSE, first |-> "stored",
           second |-> "stored"]

StorageCall(st, op, ok, thrown, o1, o2) ==
    /\ storage' = st
    /\ lastSave' = [op |-> op, ok |-> ok, thrown |-> thrown, first |-> o1, second |-> o2]
    /\ UNCHANGED <<docTimers, nextDocTimerId, saveTimerRef, valueTimerRef, isSaving,
                   lastSaved, debouncedValue>>
    /\ UNCHANGED <<exVars, hookVars>>

\* a call of saveText(text)
SaveText(t, o1, o2) ==
    /\ o1 # "stored" => o2 = "stored"
    /\ LET saved == saveText(storage, t, o1, o2, now)
       IN  StorageCall(saved.storage, "saveText", saved.ok, saved.thrown, o1, o2)

\* a call of saveMode(mode)
SaveMode(m, o) ==
    LET saved == saveMode(storage, m, o)
    IN  StorageCall(saved.storage, "saveMode", saved.ok, saved.thrown, o, "stored")

\* a call of savePreferences({theme})
SavePreferences(theme, o) ==
    LET saved == savePreferences(storage, theme, o)
    IN  StorageCall(saved.storage, "savePreferences", saved.ok, saved.thrown, o, "stored")

\* a call of clearStorage()
ClearStorage ==
    StorageCall(clearStorage(storage), "clearStorage", TRUE, FALSE, "stored", "stored")

\* an autosave that stamps the time whether or not the text was stored
SaveTimerFires_AlwaysStamps(tm, o1, o2) ==
    /\ tm \in docTimers
    /\ tm.kind = "save"
    /\ now >= tm.due
    /\ o1 # "stored" => o2 = "stored"
    /\ docTimers' = docTimers \ {tm}
    /\ LET saved == saveText(storage, tm.value, o1, o2, now)
       IN  /\ storage' = saved.storage
           /\ lastSave' = [op |-> "autosave", ok |-> saved.ok, thrown |-> saved.thrown,
                           first |-> o1, second |-> o2]
           /\ lastSaved' = IF mounted THEN [set |-> TRUE, at |-> now] ELSE lastSaved
    /\ isSaving' = IF mounted THEN FALSE ELSE isSaving
    /\ UNCHANGED <<nextDocTimerId, saveTimerRef, valueTimerRef, debouncedValue>>
    /\ UNCHANGED <<exVars, hookVars>>

\* the autosave timer comes due (lines 134-140): saveText, which may fail
SaveTimerFires(tm, o1, o2) ==
    /\ tm \in docTimers
    /\ tm.kind = "save"
    /\ now >= tm.due
    /\ o1 # "stored" => o2 = "stored"
    /\ docTimers' = docTimers \ {tm}
    /\ LET saved == saveText(storage, tm.value, o1, o2, now)
       IN  /\ storage' = saved.storage
           /\ lastSave' = [op |-> "autosave", ok |-> saved.ok, thrown |-> saved.thrown,
                           first |-> o1, second |-> o2]
           /\ lastSaved' = IF saved.ok /\ mounted THEN [set |-> TRUE, at |-> now]
                                                 ELSE lastSaved
    /\ isSaving' = IF mounted THEN FALSE ELSE isSaving
    /\ UNCHANGED <<nextDocTimerId, saveTimerRef, valueTimerRef, debouncedValue>>
    /\ UNCHANGED <<exVars, hookVars>>

\* the timer of useDebounce comes due (part_007 472-474): setDebouncedValue
ValueTimerFires(tm) ==
    /\ tm \in docTimers
    /\ tm.kind = "value"
    /\ now >= tm.due
    /\ docTimers' = docTimers \ {tm}
    /\ debouncedValue' = IF mounted THEN tm.value ELSE debouncedValue
    /\ UNCHANGED <<nextDocTimerId, saveTimerRef, valueTimerRef, storage, lastSave,
                   isSaving, lastSaved>>
    /\ UNCHANGED <<exVars, hookVars>>

\* WritingContext.setMode(mode): fetchSuggestions and debouncedFetch are
\* re-created for the new mode, so the auto-fetch effect runs again
SetMode(m) ==
    /\ mounted
    /\ m # currentMode
    /\ currentMode' = m
    /\ AutoFetchEffect("mode", text, m)
    /\ UNCHANGED <<cfg, sortImpl, apiKey, now, mounted, text, suggestions, dismissedIds,
                   lastTextRef, api, abortControllerRef, requests, lastCall>>
    /\ UNCHANGED <<exVars, docVars>>

\* the fetchSuggestions the hook returns (line 200)
FetchSuggestions(t) ==
    /\ mounted
    /\ IF cfg.autoFetch
       THEN /\ debouncedFetch("call", t, currentMode)
            /\ lastCall' = [NoCall EXCEPT !.op = "debouncedFetch", !.stateChanged = TRUE]
            /\ UNCHANGED <<suggestions, lastTextRef, api, requests, abortControllerRef>>
       ELSE /\ DoFetch("fetchSuggestions", t, currentMode)
            /\ NoTimerChange
    /\ UNCHANGED <<cfg, sortImpl, apiKey, now, mounted, text, currentMode, dismissedIds>>
    /\ UNCHANGED <<exVars, docVars>>

\* a pending debounce timer comes due: its callback calls fetchSuggestions
TimerFires(tm) ==
    /\ tm \in timerTable
    /\ now >= tm.due
    /\ timerTable' = timerTable \ {tm}
    /\ debounce' = [debounce EXCEPT !.fired = @ + 1, !.firedText = tm.text, !.firedAt = now]
    /\ DoFetch("timer", tm.text, currentMode)
    /\ promises' = [promises EXCEPT ![tm.id] =
            IF Len(requests') > Len(requests) /\ requests'[Len(requests')].status = "pending"
            THEN [status |-> "fetching", request |-> Len(requests')]
            ELSE [status |-> "resolved", request |-> 0]]
    /\ UNCHANGED <<cfg, sortImpl, apiKey, now, mounted, text, currentMode, dismissedIds,
                   debounceTimerRef, nextTimerId>>
    /\ UNCHANGED <<exVars, docVars>>

\* retry()
Retry ==
    /\ mounted
    /\ IF lastTextRef # <<>>
       THEN DoFetch("retry", lastTextRef, currentMode)
       ELSE /\ lastCall' = [NoCall EXCEPT !.op = "retry"]
            /\ UNCHANGED <<suggestions, lastTextRef, api, requests, abortControllerRef>>
    /\ NoTimerChange
    /\ UNCHANGED <<cfg, sortImpl, apiKey, now, mounted, text, currentMode, dismissedIds>>
    /\ UNCHANGED <<exVars, docVars>>

\* a catch block that stops loading but does not store the error
CatchFetchError_Silent(caught) ==
    IF IsAbortError(caught) \/ ~mounted THEN api
    ELSE [api EXCEPT !.loading = FALSE]

\* the catch block of useOpenAI.fetchSuggestions (lines 398-409)
CatchFetchError(caught) ==
    IF IsAbortError(caught) \/ ~mounted THEN api
    ELSE [api EXCEPT !.loading = FALSE, !.error = caught]

\* the then() of the timer callback: the promises of the debouncedFetch calls
\* whose fetchSuggestions was awaiting request r are resolved
SettlePromises(r) ==
    [k \in DOMAIN promises |->
        IF promises[k].status = "fetching" /\ promises[k].request = r
        THEN [status |-> "resolved", request |-> r]
        ELSE promises[k]]

\* getSuggestions resolves for request r: the completion's content is parsed
\* and mapped; useOpenAI stores the list (lines 392-397) and the effect of
\* useSuggestions (lines 63-67) copies a non-empty list.  A completion that
\* parses to something without map() makes requestFn throw instead.
FetchResolves(r, content) ==
    LET out == RequestFnOutcome(content, now) IN
    /\ r \in 1..Len(requests)
    /\ requests[r].status = "pending"
    /\ requests' = [requests EXCEPT
            ![r].status = IF out.ok THEN "resolved" ELSE "rejected"]
    /\ lastCall' = [NoCall EXCEPT
            !.op = "settled", !.request = r, !.payload = TRUE,
            !.error = IF out.ok THEN Null ELSE Caught(out.error),
            !.stateChanged = TRUE]
    /\ api' = IF ~out.ok THEN CatchFetchError(Caught(out.error))
              ELSE IF ~mounted THEN api
              ELSE [api EXCEPT !.suggestions = out.value, !.loading = FALSE, !.error = Null]
    /\ suggestions' = IF out.ok /\ mounted /\ Len(out.value) > 0 THEN out.value
                      ELSE suggestions
    /\ promises' = SettlePromises(r)
    /\ UNCHANGED <<timerTable, debounceTimerRef, nextTimerId, debounce>>
    /\ UNCHANGED <<cfg, sortImpl, apiKey, now, mounted, text, currentMode, dismissedIds,
                   lastTextRef, abortControllerRef>>
    /\ UNCHANGED <<exVars, docVars>>

\* getSuggestions rejects for request r with the ApiError of a failure e
FetchRejects(r, e) ==
    /\ r \in 1..Len(requests)
    /\ requests[r].status = "pending"
    /\ requests' = [requests EXCEPT ![r].status = "rejected"]
    /\ lastCall' = [NoCall EXCEPT
            !.op = "settled", !.request = r,
            !.error = Caught(createApiError(e)), !.stateChanged = TRUE]
    /\ api' = CatchFetchError(Caught(createApiError(e)))
    /\ promises' = SettlePromises(r)
    /\ UNCHANGED <<timerTable, debounceTimerRef, nextTimerId, debounce>>
    /\ UNCHANGED <<cfg, sortImpl, apiKey, now, mounted, text, currentMode, suggestions, dismissedIds,
                   lastTextRef, abortControllerRef>>
    /\ UNCHANGED <<exVars, docVars>>

\* a dismissSuggestion that takes the suggestion off the list without
\* recording its id
dismissSuggestion_NoRecord(s) ==
    [dismissedIds |-> dismissedIds,
     suggestions |-> SelectSeq(suggestions, LAMBDA x : x.id # s.id)]

\* dismissSuggestion(suggestion): the state it leaves
dismissSuggestion(s) ==
    [dismissedIds |-> dismissedIds \cup {s.id},
     suggestions |-> SelectSeq(suggestions, LAMBDA x : x.id # s.id)]

\* dismissSuggestion(suggestion) for a suggestion on display
Dismiss(s) ==
    /\ mounted
    /\ dismissedIds' = dismissSuggestion(s).dismissedIds
    /\ suggestions' = dismissSuggestion(s).suggestions
    /\ lastCall' = [NoCall EXCEPT !.op = "dismissSuggestion", !.suggestion = s,
                                  !.stateChanged = TRUE]
    /\ NoTimerChange
    /\ UNCHANGED <<cfg, sortImpl, apiKey, now, mounted, text, currentMode, lastTextRef, api,
                   abortControllerRef, requests>>
    /\ UNCHANGED <<exVars, docVars>>

\* applySuggestion(suggestion, currentText) for a suggestion on display
ApplySuggestion(s, currentText) ==
    /\ mounted
    /\ IF Falsy(s.suggestedText) \/ s.originalText = <<>>
       THEN /\ lastCall' = [NoCall EXCEPT !.op = "applySuggestion", !.suggestion = s,
                                          !.text = currentText, !.result = currentText]
            /\ UNCHANGED <<dismissedIds, suggestions>>
       ELSE /\ lastCall' = [NoCall EXCEPT
                    !.op = "applySuggestion", !.suggestion = s, !.text = currentText,
                    !.result = StringReplace(currentText, s.originalText, s.suggestedText.v),
                    !.stateChanged = TRUE]
            /\ dismissedIds' = dismissSuggestion(s).dismissedIds
            /\ suggestions' = dismissSuggestion(s).suggestions
    /\ NoTimerChange
    /\ UNCHANGED <<cfg, sortImpl, apiKey, now, mounted, text, currentMode, lastTextRef, api,
                   abortControllerRef, requests>>
    /\ UNCHANGED <<exVars, docVars>>

\* clearSuggestions()
ClearSuggestions ==
    /\ mounted
    /\ suggestions' = <<>>
    /\ dismissedIds' = {}
    /\ lastTextRef' = <<>>
    /\ lastCall' = [NoCall EXCEPT !.op = "clearSuggestions",
            !.stateChanged = (<<suggestions, dismissedIds, lastTextRef>> # <<<<>>, {}, <<>>>>)]
    /\ NoTimerChange
    /\ UNCHANGED <<cfg, sortImpl, apiKey, now, mounted, text, currentMode, api,
                   abortControllerRef, requests>>
    /\ UNCHANGED <<exVars, docVars>>

\* unmount: the cleanups of useSuggestions (lines 188-194) and of useOpenAI
\* (lines 431-436)
UnmountHooks ==
    /\ mounted
    /\ mounted' = FALSE
    /\ timerTable' = {tm \in timerTable : tm.id # debounceTimerRef}
    /\ requests' = abortRequest(requests, abortControllerRef)
    /\ abortControllerRef' = 0
    /\ UNCHANGED <<cfg, sortImpl, apiKey, now, text, currentMode, suggestions, dismissedIds,
                   lastTextRef, debounceTimerRef, nextTimerId, api, lastCall, debounce,
                   promises>>
    /\ UNCHANGED exVars

\* the component that uses the hooks is unmounted
Unmount ==
    /\ UnmountHooks
    /\ UNCHANGED docVars

\* an unmount that runs no cleanup
Teardown_NoCleanup ==
    /\ mounted
    /\ mounted' = FALSE
    /\ UNCHANGED <<cfg, sortImpl, apiKey, now, timerTable, nextTimerId, text, currentMode,
                   suggestions, dismissedIds, lastTextRef, debounceTimerRef, api,
                   abortControllerRef, requests, lastCall, debounce, promises>>
    /\ UNCHANGED <<exVars, docVars>>

\* the whole tree is unmounted: the cleanups of the hooks, of useDebounce
\* (part_007 477-479) and of WritingProvider (WritingContext.tsx 160-166)
Teardown ==
    /\ UnmountHooks
    /\ docTimers' = {tm \in docTimers : tm.id \notin {saveTimerRef, valueTimerRef}}
    /\ UNCHANGED <<nextDocTimerId, saveTimerRef, valueTimerRef, storage, lastSave,
                   isSaving, lastSaved, debouncedValue>>

\* the clock advances
Tick ==
    /\ now < (IF cfg.autoFetch THEN cfg.debounceMs ELSE 0) + MaxTicks * TimeUnit
    /\ now' = now + TimeUnit
    /\ UNCHANGED <<cfg, sortImpl, apiKey, mounted, timerTable, nextTimerId, text, currentMode,
                   suggestions, dismissedIds, lastTextRef, debounceTimerRef, api,
                   abortControllerRef, requests, lastCall, debounce, promises>>
    /\ UNCHANGED <<exVars, docVars>>

\* time passes until the next pending debounce timer is due
TimePasses ==
    /\ \E tm \in timerTable : tm.due > now
    /\ \A tm \in timerTable : tm.due > now
    /\ now' = CHOOSE d \in {tm.due : tm \in timerTable} : \A tm \in timerTable : d <= tm.due
    /\ UNCHANGED <<cfg, sortImpl, apiKey, mounted, timerTable, nextTimerId, text, currentMode,
                   suggestions, dismissedIds, lastTextRef, debounceTimerRef, api,
                   abortControllerRef, requests, lastCall, debounce, promises>>
    /\ UNCHANGED <<exVars, docVars>>

\* the hooks before anything has been fetched
HooksIdle ==
    /\ sortImpl = SortInPlace
    /\ cfg = [autoFetch |-> FALSE, minTextLength |-> DEFAULT_minTextLength,
              debounceMs |-> DEFAULT_debounceMs]
    /\ apiKey = TRUE
    /\ now = 0
    /\ mounted = TRUE
    /\ timerTable = {}
    /\ nextTimerId = 1
    /\ text = <<>>
    /\ currentMode = "casual"
    /\ suggestions = <<>>
    /\ dismissedIds = {}
    /\ lastTextRef = <<>>
    /\ debounceTimerRef = 0
    /\ api = [suggestions |-> <<>>, loading |-> FALSE, error |-> Null]
    /\ abortControllerRef = 0
    /\ requests = <<>>
    /\ lastCall = NoCall
    /\ debounce = NoTrigger
    /\ promises = <<>>

\* the provider and App's useDebounce left out: nothing of theirs is pending
DocIdle ==
    /\ docTimers = {}
    /\ nextDocTimerId = 1
    /\ saveTimerRef = 0
    /\ valueTimerRef = 0
    /\ storage = [TEXT |-> Absent, MODE |-> Absent, LAST_SAVED |-> Absent,
                  PREFERENCES |-> Absent]
    /\ lastSave = NoSave
    /\ isSaving = FALSE
    /\ lastSaved = [set |-> FALSE, at |-> 0]
    /\ debouncedValue = <<>>

\* the provider and App after mount with nothing in localStorage: the effect
\* of useDebounce has set its first timer, for the empty initial text
DocMounted ==
    /\ docTimers = {[id |-> 1, kind |-> "value", value |-> <<>>, due |-> DebouncedTextDelay]}
    /\ nextDocTimerId = 2
    /\ saveTimerRef = 0
    /\ valueTimerRef = 1
    /\ storage = [TEXT |-> Absent, MODE |-> Absent, LAST_SAVED |-> Absent,
                  PREFERENCES |-> Absent]
    /\ lastSave = NoSave
    /\ isSaving = FALSE
    /\ lastSaved = [set |-> FALSE, at |-> 0]
    /\ debouncedValue = <<>>

\* the hooks after mount, whatever the options
MountedHooks ==
    /\ ExInit
    /\ sortImpl \in SortImpls
    /\ apiKey \in BOOLEAN
    /\ now = 0
    /\ mounted = TRUE
    /\ timerTable = {}
    /\ nextTimerId = 1
    /\ text = <<>>
    /\ currentMode = "casual"
    /\ suggestions = <<>>
    /\ dismissedIds = {}
    /\ lastTextRef = <<>>
    /\ debounceTimerRef = 0
    /\ api = [suggestions |-> <<>>, loading |-> FALSE, error |-> Null]
    /\ abortControllerRef = 0
    /\ requests = <<>>
    /\ lastCall = NoCall
    /\ debounce = NoTrigger
    /\ promises = <<>>

\* the hooks after mount with the given autoFetch option: the options are
\* merged with the defaults, there is no saved text, so the text is the empty
\* initial text and the auto-fetch effect has found nothing to schedule
Mounted(autoFetch) ==
    /\ cfg = [autoFetch |-> autoFetch, minTextLength |-> DEFAULT_minTextLength,
              debounceMs |-> DEFAULT_debounceMs]
    /\ MountedHooks

\* the hooks after mount with minTextLength below the threshold of useOpenAI
MountedShort ==
    /\ cfg = [autoFetch |-> FALSE, minTextLength |-> ShortMinTextLength,
              debounceMs |-> DEFAULT_debounceMs]
    /\ MountedHooks

\* The hook as App.tsx uses it, autoFetch off.  No timer is ever scheduled
\* and the hook reads neither the text nor a change of mode, so edits and
\* mode changes are left out; App is the root of the page and stays mounted
\* (unmounting is part of SpecAuto and SpecTeardown).
Init == Mounted(FALSE) /\ sortImpl = SortInPlace /\ DocIdle

Next ==
    \/ \E t \in DocTexts : FetchSuggestions(t)
    \/ Retry
    \/ \E r \in 1..MaxRequests, c \in Contents : FetchResolves(r, c)
    \/ \E r \in 1..MaxRequests, e \in PipelineFailures : FetchRejects(r, e)
    \/ \E i \in 1..Len(Visible) : Dismiss(Visible[i])
    \/ \E i \in 1..Len(Visible), ct \in ApplyTexts : ApplySuggestion(Visible[i], ct)
    \/ ClearSuggestions
    \/ Tick

Spec == Init /\ [][Next]_vars

\* The hook with autoFetch on
InitAuto == Mounted(TRUE) /\ sortImpl = SortInPlace /\ DocIdle

NextAuto ==
    \/ \E t \in DocTexts : Edit(t)
    \/ \E m \in Modes : SetMode(m)
    \/ \E t \in DocTexts : FetchSuggestions(t)
    \/ \E tm \in timerTable : TimerFires(tm)
    \/ Retry
    \/ \E r \in 1..MaxRequests, c \in Contents : FetchResolves(r, c)
    \/ \E r \in 1..MaxRequests, e \in PipelineFailures : FetchRejects(r, e)
    \/ \E i \in 1..Len(Visible) : Dismiss(Visible[i])
    \/ \E i \in 1..Len(Visible), ct \in ApplyTexts : ApplySuggestion(Visible[i], ct)
    \/ ClearSuggestions
    \/ Unmount
    \/ Tick

SpecAuto == InitAuto /\ [][NextAuto]_vars

\* The list on display for whatever severities the provider sends and
\* whatever the engine's sort does with an inconsistent comparator
RankContents ==
    { Content("none", TRUE, "array", ItemsC),
      Content("json", TRUE, "array", ItemsB) }

InitRank == Mounted(FALSE) /\ apiKey /\ DocIdle

NextRank ==
    \/ \E t \in DocTexts : FetchSuggestions(t)
    \/ \E r \in 1..MaxRequests, c \in RankContents : FetchResolves(r, c)
    \/ \E i \in 1..Len(Visible) : Dismiss(Visible[i])
    \/ \E i \in 1..Len(Visible), ct \in ApplyTexts : ApplySuggestion(Visible[i], ct)
    \/ ClearSuggestions

SpecRank == InitRank /\ [][NextRank]_vars

\* The local analysis of App.tsx: the text analysed is any run of up to
\* MaxFragments of these pieces
Fragments ==
    { <<"T", "h", "u", "s">>,
      <<"M", "U", "S", "T">>,
      <<"c", "o", "o", "l">>,
      <<"!", "!">>,
      <<"m", "o", "d", "u", "l", "e">>,
      <<".", ".", ".">>,
      <<"i", "m", "p", "l", "e", "m", "e", "n", "t", "a", "t", "i", "o", "n">>,
      <<"T", "a", "b", "l", "e">>,
      <<" ">>,
      <<".">> }

RECURSIVE Concat(_)
Concat(pieces) == IF pieces = <<>> THEN <<>> ELSE Head(pieces) \o Concat(Tail(pieces))

AnalysisTexts ==
    {Concat(pieces) : pieces \in UNION {[1..n -> Fragments] : n \in 0..MaxFragments}}

\* the two useMemo values of App (lines 29-36)
readabilityScore == calculateReadability(debouncedValue)
tone == analyzeTone(debouncedValue)

\* App renders with the first debounced text after the mount with an empty
\* document
RenderAnalysis(t) ==
    /\ mounted
    /\ debouncedValue = <<>>
    /\ debouncedValue' = t
    /\ UNCHANGED <<docTimers, nextDocTimerId, saveTimerRef, valueTimerRef, storage,
                   lastSave, isSaving, lastSaved>>
    /\ UNCHANGED <<exVars, hookVars>>

InitAnalysis == ExInit /\ HooksIdle /\ DocIdle

NextAnalysis == \E t \in AnalysisTexts : RenderAnalysis(t)

SpecAnalysis == InitAnalysis /\ [][NextAnalysis]_vars

\* The storage service, called in any order with any behaviour of localStorage
Themes == {"light", "dark"}

InitStorage == ExInit /\ HooksIdle /\ DocIdle

NextStorage ==
    \/ \E t \in DocTexts, o1, o2 \in SetItemOutcomes : SaveText(t, o1, o2)
    \/ \E m \in Modes, o \in SetItemOutcomes : SaveMode(m, o)
    \/ \E th \in Themes, o \in SetItemOutcomes : SavePreferences(th, o)
    \/ ClearStorage
    \/ Tick

SpecStorage == InitStorage /\ [][NextStorage]_vars

\* The hook with autoFetch on and a caller that keeps the promises the
\* returned fetchSuggestions (debouncedFetch) gives it.  Timers come due and
\* run, and requests settle: the event loop runs a due timer, time does not
\* stop, and makeRequestWithRetry settles every request by its timeout.
InitDebounce == Mounted(TRUE) /\ sortImpl = SortInPlace /\ apiKey /\ DocIdle

NextDebounce ==
    \/ \E t \in DocTexts : FetchSuggestions(t)
    \/ \E tm \in timerTable : TimerFires(tm)
    \/ \E r \in 1..MaxRequests, c \in RankContents : FetchResolves(r, c)
    \/ Unmount
    \/ TimePasses

SpecDebounce ==
    /\ InitDebounce
    /\ [][NextDebounce]_vars
    /\ WF_vars(TimePasses)
    /\ WF_vars(\E tm \in timerTable : TimerFires(tm))
    /\ WF_vars(\E r \in 1..MaxRequests, c \in RankContents : FetchResolves(r, c))

\* The hook with a minTextLength option of 10, autoFetch off
InitShort == MountedShort /\ sortImpl = SortInPlace /\ DocIdle

NextShort ==
    \/ \E t \in ShortTexts : FetchSuggestions(t)
    \/ Retry
    \/ \E r \in 1..MaxRequests, c \in RankContents : FetchResolves(r, c)
    \/ ClearSuggestions

SpecShort == InitShort /\ [][NextShort]_vars

\* The provider, App and the hook with autoFetch on: the three debounced
\* triggers are the autosave, the debounced text of the local analysis, and
\* the suggestion debounce
InitTeardown == Mounted(TRUE) /\ sortImpl = SortInPlace /\ apiKey /\ DocMounted

NextTeardown ==
    \/ \E t \in DocTexts : SetText(t)
    \/ \E tm \in timerTable : TimerFires(tm)
    \/ \E r \in 1..MaxRequests, c \in Contents : FetchResolves(r, c)
    \/ \E r \in 1..MaxRequests, e \in PipelineFailures : FetchRejects(r, e)
    \/ \E tm \in docTimers, o1, o2 \in SetItemOutcomes : SaveTimerFires(tm, o1, o2)
    \/ \E tm \in docTimers : ValueTimerFires(tm)
    \/ Teardown
    \/ Tick

SpecTeardown == InitTeardown /\ [][NextTeardown]_vars

InitRetry == ExInit /\ HooksIdle /\ DocIdle

NextRetry ==
    \/ \E mr \in (0..MaxRetriesOpt) \cup {CONFIG_maxRetries} : Call(mr, CONFIG_timeout)
    \/ \E v \in RequestValues : RequestResolves(v)
    \/ \E e \in RequestErrors : RequestRejects(e)
    \/ TimeoutFires
    \/ SleepDone
    \/ ExTick

SpecRetry == InitRetry /\ [][NextRetry]_vars

----------------------------------------------------------------------------
(* Properties of the retrying executor (SpecRetry) *)

AllRetryable(errors) == \A i \in 1..Len(errors) : Truthy(errors[i].retryable)

\* C2: a first failure that is not retryable means exactly one invocation and
\* no wait; failing retryably on every attempt means maxRetries+1 invocations
\* with waits 1000, 2000, 4000, ... (doubling from the base delay), none after
\* the final attempt; and no attempt starts before its wait has elapsed.
C2_AttemptCount ==
    /\ [](exPc = "thrown" /\ ~Truthy(exErrors[1].retryable)
            => exCalls = 1 /\ exSleeps = <<>>)
    /\ [](exPc = "thrown" /\ AllRetryable(exErrors)
            => /\ exCalls = exMaxRetries + 1
               /\ Len(exSleeps) = exMaxRetries
               /\ \A k \in 1..Len(exSleeps) :
                     exSleeps[k] = IF k = 1 THEN 1000 ELSE 2 * exSleeps[k - 1])
    /\ [][exCalls' = exCalls + 1 /\ exCalls > 0
            => exElapsed >= exSleeps[Len(exSleeps)]]_vars

C2_Witness ==
    /\ exPc = "thrown"
    /\ exMaxRetries = CONFIG_maxRetries
    /\ exCalls = 4
    /\ exSleeps = <<1000, 2000, 4000>>

\* C3: an attempt that times out while attempts remain is classified as
\* retryable and is followed by a backoff wait, not by an immediate failure.
C3_TimeoutIsRetried ==
    \A i \in 1..Len(exThrown) :
        exThrown[i].kind = "timeout" /\ i - 1 < exMaxRetries
            => /\ Truthy(exErrors[i].retryable)
               /\ ~(exPc = "thrown" /\ i = Len(exThrown))

\* C4: a failed attempt is classified retryable exactly when it is an HTTP
\* 429, an HTTP status >= 500 or a network-level failure; anything else
\* (401/403 included) gets retryable = false.
C4_Classification ==
    \A i \in 1..Len(exThrown) :
        exThrown[i].kind # "timeout"
            => exErrors[i].retryable =
                 JsBool(\/ exThrown[i].status = 429
                        \/ exThrown[i].status >= 500
                        \/ exThrown[i].kind = "network")

\* C5: when attempt k succeeds after k retryable failures, the call returns
\* that attempt's value, requestFn has been invoked k+1 times and not again,
\* and exactly k backoff waits were made.
C5_RetrySuccess ==
    exPc = "returned"
        => /\ Len(exResolved) = 1
           /\ exResult = exResolved[1].value
           /\ exAttempt = exResolved[1].attempt
           /\ exAttempt <= exMaxRetries
           /\ exCalls = exAttempt + 1
           /\ Len(exSleeps) = exAttempt
           /\ Len(exErrors) = exAttempt
           /\ AllRetryable(exErrors)

C5_Witness ==
    /\ exPc = "returned"
    /\ exThrown = <<RateLimited, RateLimited>>
    /\ exCalls = 3
    /\ Len(exSleeps) = 2

----------------------------------------------------------------------------
(* Properties of the hooks *)

\* C1: when a request A settles successfully after a later-started request B
\* has already delivered its result, the list of useOpenAI and the list on
\* display stay B's: A's result does not overwrite them.
C1_StaleResultNeverOverwrites ==
    [][\A a \in 1..Len(requests) :
          (/\ requests[a].status = "pending"
           /\ requests'[a].status = "resolved"
           /\ \E b \in (a + 1)..Len(requests) : requests[b].status = "resolved")
          => /\ api'.suggestions = api.suggestions
             /\ Visible' = Visible]_vars

\* C6: retry() with a last-attempted text recorded starts a request for that
\* text; stated for the case the claim singles out, a retry while the error
\* of a failed fetch is on display.
C6_RetryStartsRequest ==
    apiKey /\ lastCall.op = "retry" /\ lastCall.wasLastAttempted /\ lastCall.hadError
        => lastCall.requestStarted

\* C7 as claimed: fetchSuggestions(text) with the text of the most recent
\* request (settled or in flight) starts no request and changes nothing.
C7_NoRefetchOfFetchedText ==
    lastCall.op = "fetchSuggestions" /\ lastCall.wasLastFetched
        => ~lastCall.requestStarted /\ ~lastCall.stateChanged

\* C7 as amended: fetchSuggestions(text) with the recorded last-attempted
\* text (lastTextRef, which clearSuggestions resets) starts no request and
\* changes nothing.
C7_NoRefetchOfLastAttempted ==
    lastCall.op \in {"fetchSuggestions", "timer", "retry"} /\ lastCall.wasLastAttempted
        => ~lastCall.requestStarted /\ ~lastCall.stateChanged

C7_Witness ==
    /\ lastCall.op = "fetchSuggestions"
    /\ lastCall.wasLastAttempted
    /\ lastCall.wasLastFetched
    /\ Len(requests) = 1

\* C8: applySuggestion for a suggestion with a suggestedText and a non-empty
\* originalText returns currentText with the first occurrence of
\* originalText replaced by suggestedText (currentText itself when there is
\* none), and the suggestion is off the list.
C8_ApplyReplacesFirstOccurrence ==
    (/\ lastCall.op = "applySuggestion"
     /\ lastCall.suggestion.suggestedText.defined
     /\ lastCall.suggestion.originalText # <<>>)
        => /\ lastCall.result = ReplaceFirstOccurrence(lastCall.text,
                                    lastCall.suggestion.originalText,
                                    lastCall.suggestion.suggestedText.v)
           /\ lastCall.suggestion.id \notin Ids(Visible)

\* C9: applySuggestion for a suggestion without suggestedText returns
\* currentText and the suggestion is off the list.
C9_ApplyWithoutReplacementDismisses ==
    lastCall.op = "applySuggestion" /\ ~lastCall.suggestion.suggestedText.defined
        => /\ lastCall.result = lastCall.text
           /\ lastCall.suggestion.id \notin Ids(Visible)

\* C10: after an edit has triggered the debounce, the callback runs at most
\* once, with the text of that edit and no earlier than debounceMs after it;
\* until it runs (and while mounted) exactly one timer is pending, for that
\* text and that time.
C10_DebouncedFetch ==
    debounce.by = "edit"
        => /\ debounce.fired <= 1
           /\ debounce.fired = 1
                => /\ debounce.firedText = debounce.text
                   /\ debounce.firedAt >= debounce.at + 3000
           /\ debounce.fired = 0 /\ mounted
                => timerTable = {[id |-> debounceTimerRef, text |-> debounce.text,
                                  due |-> debounce.at + 3000]}
           /\ debounce.fired = 1 \/ ~mounted => timerTable = {}

C10_Witness ==
    /\ debounce.by = "edit"
    /\ debounce.fired = 1
    /\ debounce.at >= TimeUnit
    /\ nextTimerId = 3
    /\ lastCall.op = "timer"
    /\ lastCall.requestStarted

\* C11: a completion delivered by the provider, whatever its text, makes
\* getSuggestions resolve with a list: no request to which a payload was
\* delivered ends rejected.
C11_PayloadNeverRejects ==
    lastCall.op = "settled" /\ lastCall.payload
        => requests[lastCall.request].status = "resolved"

\* C12: when the request of the latest fetch resolves with a batch, the list
\* on display becomes the non-dismissed members of that batch (nothing when
\* the batch is empty) and the error slot is null.
C12_BatchReplacement ==
    [][\A r \in 1..Len(requests) :
          (/\ mounted
           /\ r = Len(requests)
           /\ requests[r].status = "pending"
           /\ requests'[r].status = "resolved")
          => /\ Visible' = sortedSuggestions(api'.suggestions, dismissedIds')
             /\ api'.error = Null]_vars

\* C13: when a request that was superseded (its controller aborted by a
\* later fetch or by unmount) fails, the error slot stays as it was.  Stated
\* for failures of the transport, which owe nothing to the payload.
C13_SupersededFailureIsSilent ==
    [][\A a \in 1..Len(requests) :
          (/\ requests[a].aborted
           /\ requests[a].status = "pending"
           /\ requests'[a].status = "rejected"
           /\ ~lastCall'.payload)
          => api'.error = api.error]_vars

\* C14: while mounted, the failure of the latest request puts exactly that
\* failure on the error slot, whatever was there, and leaves the lists alone;
\* a fetch that starts a request resets the slot to null; a request that
\* resolves leaves the slot null.
C14_ErrorSlotLifecycle ==
    [][/\ \A r \in 1..Len(requests) :
            (/\ mounted
             /\ r = Len(requests)
             /\ requests[r].status = "pending"
             /\ requests'[r].status = "rejected")
            => /\ api'.error = lastCall'.error
               /\ api'.error # Null
               /\ api'.suggestions = api.suggestions
               /\ suggestions' = suggestions
       /\ Len(requests') > Len(requests)
            => api'.error = IF requests'[Len(requests')].status = "pending" THEN Null
                            ELSE lastCall'.error
       /\ \A r \in 1..Len(requests) :
            (/\ mounted
             /\ requests[r].status = "pending"
             /\ requests'[r].status = "resolved")
            => api'.error = Null]_vars

\* the second of two failed requests has replaced the error of the first
C14_Witness ==
    /\ Len(requests) = 2
    /\ requests[1].status = "rejected"
    /\ requests[2].status = "rejected"
    /\ lastCall.op = "settled"
    /\ lastCall.request = 2
    /\ api.error = Caught(createApiError(Unauthorized))

\* C15: the error slot is null or an ApiError: it has a code, a message and
\* a retryable flag that is true or false.
C15_ErrorSlotShape ==
    api.error # Null
        => /\ api.error.code # Undefined
           /\ api.error.message # Undefined
           /\ api.error.retryable \in {"true", "false"}

\* the place of a suggestion in the batch it arrived in
Position(list, x) == CHOOSE k \in 1..Len(list) : list[k].id = x.id

\* C16: in the list on display a suggestion of one of the four severities
\* never comes after one of a later severity (error, warning, info,
\* suggestion), and two of the same severity are in their order of arrival.
\* Stated for an engine whose sort finds nothing to move when every
\* comparison of neighbours gives +0 (V8 takes the whole list for one run).
C16_RankingInvariant ==
    \A i, j \in 1..Len(Visible) :
        (/\ sortImpl = SortInPlace
         /\ i < j
         /\ KnownSeverity(Visible[i].severity)
         /\ KnownSeverity(Visible[j].severity))
        => /\ severityOrder(Visible[i].severity) <= severityOrder(Visible[j].severity)
           /\ severityOrder(Visible[i].severity) = severityOrder(Visible[j].severity)
                => Position(suggestions, Visible[i]) < Position(suggestions, Visible[j])

\* C17: dismissSuggestion(s) for a suggestion on display takes s off the
\* list on display, records s.id and leaves the others where they were; no
\* suggestion with a recorded id is on display; and a recorded id stays
\* recorded until clearSuggestions.
C17_Dismissal ==
    /\ [](Ids(Visible) \cap dismissedIds = {})
    /\ [][(/\ lastCall'.op = "dismissSuggestion"
            /\ lastCall'.suggestion.id \in Ids(Visible))
           => /\ Visible' = SelectSeq(Visible, LAMBDA x : x.id # lastCall'.suggestion.id)
              /\ lastCall'.suggestion.id \in dismissedIds']_vars
    /\ [][dismissedIds \subseteq dismissedIds' \/ lastCall'.op = "clearSuggestions"]_vars

\* one of the two suggestions of a batch was dismissed, the other is on display
C17_Witness ==
    /\ lastCall.op = "dismissSuggestion"
    /\ lastCall.suggestion.id \in dismissedIds
    /\ Len(suggestions) = 1
    /\ Len(Visible) = 1

\* C18 as claimed: fetchSuggestions(text) with a text that is empty or, once
\* trimmed, shorter than minTextLength starts no request, sets no error and
\* leaves the suggestion list, the last-attempted text and the loading flag
\* as they were.
C18_TooShortIsNoOp ==
    [][(lastCall'.op \in {"fetchSuggestions", "timer"} /\ lastCall'.tooShort)
       => /\ requests' = requests
          /\ api' = api
          /\ lastTextRef' = lastTextRef
          /\ suggestions' = suggestions]_vars

\* C18 as amended: such a call starts no request, sets no error, leaves the
\* last-attempted text, the loading flag and the dismissed ids as they were,
\* and empties the suggestion list.
C18_TooShortClearsList ==
    [][(lastCall'.op \in {"fetchSuggestions", "timer"} /\ lastCall'.tooShort)
       => /\ requests' = requests
          /\ abortControllerRef' = abortControllerRef
          /\ api' = api
          /\ lastTextRef' = lastTextRef
          /\ dismissedIds' = dismissedIds
          /\ suggestions' = <<>>
          /\ Visible' = <<>>]_vars

\* a too-short call has emptied a list that held the batch of the last fetch
C18_Witness ==
    /\ lastCall.op = "fetchSuggestions"
    /\ lastCall.tooShort
    /\ lastCall.stateChanged
    /\ suggestions = <<>>
    /\ api.suggestions # <<>>
    /\ lastTextRef # <<>>

\* C19: the suggestions of a batch that arrives have ids that differ from
\* one another and from every id of an earlier batch the hooks still hold
\* (the stored batch, the list on display, the dismissed ids).
C19_FreshIds ==
    [][\A r \in 1..Len(requests) :
          (/\ mounted
           /\ requests[r].status = "pending"
           /\ requests'[r].status = "resolved")
          => /\ Cardinality(Ids(api'.suggestions)) = Len(api'.suggestions)
             /\ Ids(api'.suggestions)
                    \cap (Ids(api.suggestions) \cup Ids(suggestions) \cup dismissedIds)
                  = {}]_vars

\* C20: once the tree is unmounted no debounce timer is pending, whether of
\* the suggestion debounce, of the debounced text or of the autosave, and
\* from then on nothing they would have done happens: no callback of the
\* suggestion debounce, no request, no save, no state update.
C20_TeardownCancels ==
    /\ [](~mounted => timerTable = {} /\ docTimers = {})
    /\ [][~mounted
           => /\ debounce' = debounce
              /\ Len(requests') = Len(requests)
              /\ storage' = storage
              /\ lastSaved' = lastSaved
              /\ isSaving' = isSaving
              /\ debouncedValue' = debouncedValue
              /\ suggestions' = suggestions
              /\ api' = api]_vars

\* unmounted while all three timers of the last edit were pending, and time
\* has passed their delays since
C20_Witness ==
    /\ ~mounted
    /\ debounce.by = "edit"
    /\ debounce.fired = 0
    /\ isSaving
    /\ storage.TEXT # Stored(text)
    /\ debouncedValue # text
    /\ now >= debounce.at + DEFAULT_debounceMs

C22_ManualFetchImmediate ==
    [][\A t \in DocTexts :
          (/\ FetchSuggestions(t)
           /\ apiKey
           /\ Len(Trim(t)) >= cfg.minTextLength
           /\ t # lastTextRef)
          => /\ Len(requests') = Len(requests) + 1
             /\ requests'[Len(requests')].text = t
             /\ requests'[Len(requests')].status = "pending"
             /\ api'.loading]_vars

\* C25: while the hooks are mounted the loading flag is true exactly when the
\* most recently started request has not settled; in particular the settling
\* of an older request leaves it true while the newer one is in flight.
C25_LoadingTracksCurrent ==
    mounted => (api.loading <=> (/\ requests # <<>>
                                 /\ requests[Len(requests)].status = "pending"))

\* C26: after clearSuggestions the list on display is empty, and a request
\* that settles before any further call of the hook (a request that was
\* started before the clear) leaves it empty.
C26_ClearBeatsInFlight ==
    [][/\ lastCall'.op = "clearSuggestions" => Visible' = <<>>
       /\ (lastCall.op = "clearSuggestions" /\ lastCall'.op = "settled")
          => Visible' = <<>>]_vars

\* C27: with autoFetch on and the text changed by edits only, the suggestion
\* debounce timer that fires fetches the current text of the document.
C27_TimerTextIsCurrent ==
    [][\A tm \in timerTable : (mounted /\ TimerFires(tm)) => tm.text = text]_vars

\* C29: whenever fetchSuggestions records a text as the last-attempted one
\* (with an API key configured), the same step issues a request for that
\* text, also when minTextLength is set below 50.
C29_AttemptedImpliesRequest ==
    [][(apiKey /\ lastTextRef' # lastTextRef /\ lastTextRef' # <<>>)
       => /\ Len(requests') = Len(requests) + 1
          /\ requests'[Len(requests')].text = lastTextRef'
          /\ requests'[Len(requests')].sent]_vars

\* C28: a saveText or saveMode that fails leaves every value in storage
\* (text, mode, time stamp, preferences) as it was, and after a saveText that
\* returns true the stored text is its argument.
C28_FailedSaveKeepsData ==
    [][/\ \A t \in DocTexts, o1, o2 \in SetItemOutcomes :
            SaveText(t, o1, o2)
            => IF lastSave'.ok THEN storage'.TEXT = Stored(t) ELSE storage' = storage
       /\ \A m \in Modes, o \in SetItemOutcomes :
            (SaveMode(m, o) /\ ~lastSave'.ok) => storage' = storage]_vars

C30_PromisesSettle ==
    \A k \in 1..MaxTimers :
        (Len(promises) >= k)
            ~> (Len(promises) >= k /\ promises[k].status = "resolved")

====
